---- MODULE Spec2Model ----
(***************************************************************************)
(* State-machine model of the SORA / DyuAPI client (src/sora_api.py) and   *)
(* of the three ComfyUI nodes built on it (src/node_sora_jobs.py):         *)
(* CreateVideoJob.call, GetVideoJobStatus.call, DownloadVideoResult.call.  *)
(*                                                                         *)
(* One behaviour is one invocation of one node.  The remote server, the    *)
(* file system and the wall clock are the environment: every HTTP call     *)
(* draws its outcome (a transport exception or a Response object) and its  *)
(* duration from small sets, every temp-file write draws success or an     *)
(* OSError.                                                                *)
(*                                                                         *)
(* Python strings whose content the code inspects (strip, lower,           *)
(* startswith, len, b64decode) are sequences of one-character strings;     *)
(* strings that are only compared or tested for emptiness are TLA+         *)
(* strings.  JSON values are tagged records.  Time is counted in ticks of  *)
(* half a second, the floor of the polling sleep.                          *)
(***************************************************************************)
EXTENDS Integers, Sequences, FiniteSets, TLC

VARIABLES
    op,         \* the node invoked: "create", "status" or "download"
    pc,         \* position inside the node's call
    args,       \* the call's arguments
    loc,        \* the call's local variables
    requests,   \* HTTP requests issued so far, in order
    handle,     \* the upload file handle: "none", "open" or "closed"
    ret,        \* what the last SoraAPIClient method returned
    clock,      \* wall clock, in ticks
    sleeps,     \* number of time.sleep calls made
    attempts,   \* download/decode/save steps of the resolution, in order
    files,      \* temp files on disk written by save_bytes_to_tempfile
    result      \* the node's return value, <<envelope, scalar>>

vars == <<op, pc, args, loc, requests, handle, ret, clock, sleeps,
          attempts, files, result>>

(***************************************************************************)
(* Bounds of the model.                                                    *)
(***************************************************************************)
\* largest duration of one HTTP exchange, in ticks
MaxReqTicks == 3
\* largest poll_timeout argument, in seconds
MaxPollTimeout == 2
\* largest poll_interval argument, in seconds
MaxPollInterval == 1
\* largest number of keys present in a generated job JSON object
MaxKeys == 2

(***************************************************************************)
(* Python strings as character sequences.                                  *)
(***************************************************************************)
Rep(n, c) == [i \in 1..n |-> c]

Whitespace == {" ", "\t", "\n", "\r"}

UpperCase == <<"A","B","C","D","E","F","G","H","I","J","K","L","M",
               "N","O","P","Q","R","S","T","U","V","W","X","Y","Z">>
LowerCase == <<"a","b","c","d","e","f","g","h","i","j","k","l","m",
               "n","o","p","q","r","s","t","u","v","w","x","y","z">>
Digits == {"0","1","2","3","4","5","6","7","8","9"}

\* str.lower(), one character
LowerChar(c) ==
    IF \E i \in 1..Len(UpperCase) : UpperCase[i] = c
    THEN LowerCase[CHOOSE i \in 1..Len(UpperCase) : UpperCase[i] = c]
    ELSE c

\* str.lower()
Lower(s) == [i \in 1..Len(s) |-> LowerChar(s[i])]

\* str.strip(): drop leading and trailing whitespace
Strip(s) ==
    LET keep == {i \in 1..Len(s) : s[i] \notin Whitespace}
    IN  IF keep = {} THEN <<>>
        ELSE LET lo == CHOOSE i \in keep : \A k \in keep : i <= k
                 hi == CHOOSE i \in keep : \A k \in keep : k <= i
             IN  SubSeq(s, lo, hi)

\* str.startswith(p)
StartsWith(s, p) == Len(s) >= Len(p) /\ SubSeq(s, 1, Len(p)) = p

\* p in s
Contains(s, p) ==
    \E i \in 0..(Len(s) - Len(p)) : SubSeq(s, i + 1, i + Len(p)) = p

HTTP_PREFIX == <<"h","t","t","p">>
DATA_PREFIX == <<"d","a","t","a",":">>
VIDEO_PREFIX == <<"v","i","d","e","o">>
JSON_CT == <<"a","p","p","l","i","c","a","t","i","o","n","/","j","s","o","n">>
VIDEO_CT == <<"v","i","d","e","o","/","m","p","4">>
TEXT_CT == <<"t","e","x","t","/","p","l","a","i","n">>

(***************************************************************************)
(* base64.b64decode(s) with validate=False, the scan of                    *)
(* binascii.a2b_base64 in closed form: characters outside the alphabet are *)
(* skipped; a pad that completes a quad (at least two data characters in   *)
(* the quad, and pads since the last data character filling it) ends the   *)
(* scan; without such a pad, leftover data characters of a quad are an     *)
(* error.  Bytes are modelled by their number: [ok, n].                    *)
(***************************************************************************)
B64Alphabet ==
    {UpperCase[i] : i \in 1..Len(UpperCase)} \cup
    {LowerCase[i] : i \in 1..Len(LowerCase)} \cup Digits \cup {"+", "/"}

\* data characters among the first i - 1
DataBefore(s, i) == Cardinality({k \in 1..(i - 1) : s[k] \in B64Alphabet})

\* pads among the first i - 1 with no data character after them
PadsBefore(s, i) ==
    Cardinality({k \in 1..(i - 1) :
                    /\ s[k] = "="
                    /\ \A m \in (k + 1)..(i - 1) : s[m] \notin B64Alphabet})

\* bytes that d data characters decode to
DecodedLen(d) ==
    3 * (d \div 4) + (IF d % 4 = 2 THEN 1 ELSE IF d % 4 = 3 THEN 2 ELSE 0)

b64decode(s) ==
    LET ends == {i \in 1..Len(s) :
                    /\ s[i] = "="
                    /\ DataBefore(s, i) % 4 >= 2
                    /\ (DataBefore(s, i) % 4) + PadsBefore(s, i) + 1 >= 4}
        total == DataBefore(s, Len(s) + 1)
    IN  IF ends # {}
        THEN [ok |-> TRUE,
              n |-> DecodedLen(DataBefore(s,
                        CHOOSE i \in ends : \A k \in ends : i <= k))]
        ELSE IF total % 4 = 0
             THEN [ok |-> TRUE, n |-> DecodedLen(total)]
             ELSE [ok |-> FALSE, n |-> 0]

(***************************************************************************)
(* Python and JSON values.  None and JSON null are the same value, as      *)
(* json.loads makes them.                                                  *)
(***************************************************************************)
None == [t |-> "null"]
JBool(b) == [t |-> "bool", v |-> b]
JNum(n) == [t |-> "num", v |-> n]
JStr(s) == [t |-> "str", v |-> s]
JList(q) == [t |-> "list", v |-> q]
JDict(f) == [t |-> "dict", v |-> f]
Bytes(n) == [t |-> "bytes", n |-> n]

EmptyMap == [k \in {} |-> None]
EmptyDict == JDict(EmptyMap)

\* bool(x): the truth value Python gives x in `x or y`, `if x`, `not x`
Truthy(x) ==
    CASE x.t = "null"  -> FALSE
      [] x.t = "bool"  -> x.v
      [] x.t = "num"   -> x.v # 0
      [] x.t = "str"   -> Len(x.v) > 0
      [] x.t = "list"  -> Len(x.v) > 0
      [] x.t = "dict"  -> DOMAIN x.v # {}
      [] x.t = "bytes" -> x.n > 0

\* isinstance(x, str)
IsStr(x) == x.t = "str"

\* whether x.get / x.items exist: only a dict has them, on any other value
\* the attribute lookup raises AttributeError
IsDict(x) == x.t = "dict"

\* d.get(k) on a dict d
Get(d, k) == IF k \in DOMAIN d.v THEN d.v[k] ELSE None

(***************************************************************************)
(* Literal texts used as inputs and response bodies.                       *)
(***************************************************************************)
S_v1 == <<"v","1">>
S_j2 == <<"j","2">>
S_t3 == <<"t","3">>
S_v4 == <<"v","4">>
S_succeeded == <<"s","u","c","c","e","e","d","e","d">>
S_completed == <<"c","o","m","p","l","e","t","e","d">>
S_finished == <<"f","i","n","i","s","h","e","d">>
S_done == <<"d","o","n","e">>
S_success == <<"s","u","c","c","e","s","s">>
S_Completed == <<"C","o","m","p","l","e","t","e","d">>
S_FINISHED_sp == <<" ","F","I","N","I","S","H","E","D"," ">>
S_Success == <<"S","u","c","c","e","s","s">>
S_running == <<"r","u","n","n","i","n","g">>
S_doner == <<"d","o","n","e","r">>
S_d_one == <<"d"," ","o","n","e">>
T_obj_ab == <<"{","\"","a","\"",":","\"","b","\"","}">>
T_arr == <<"[","1","]">>
T_bad == <<"{","b","a","d">>
T_zero == <<"0">>
T_seven == <<"7">>
T_str == <<"\"","s","\"">>
T_null == <<"n","u","l","l">>
T_true == <<"t","r","u","e">>
T_empty_obj == <<"{","}">>
T_id == <<"{","\"","i","d","\"",":","\"","v","1","\"","}">>
T_id_empty == <<"{","\"","i","d","\"",":","\"","\"",",","\"","j","o","b","_","i","d","\"",":","\"","j","2","\"","}">>
T_id_num == <<"{","\"","i","d","\"",":","7",",","\"","t","a","s","k","_","i","d","\"",":","\"","t","3","\"","}">>
T_two_ids == <<"{","\"","v","i","d","e","o","_","i","d","\"",":","\"","v","4","\"",",","\"","i","d","\"",":","\"","v","1","\"","}">>
T_oops == <<"o","o","p","s">>
T_st_succeeded == <<"{","\"","s","t","a","t","u","s","\"",":","\"","s","u","c","c","e","e","d","e","d","\"","}">>
T_st_Completed == <<"{","\"","s","t","a","t","u","s","\"",":","\"","C","o","m","p","l","e","t","e","d","\"","}">>
T_state_FINISHED == <<"{","\"","s","t","a","t","e","\"",":","\""," ","F","I","N","I","S","H","E","D"," ","\"","}">>
T_st_running == <<"{","\"","s","t","a","t","u","s","\"",":","\"","r","u","n","n","i","n","g","\"","}">>
T_st_empty_state_done == <<"{","\"","s","t","a","t","u","s","\"",":","\"","\"",",","\"","s","t","a","t","e","\"",":","\"","d","o","n","e","\"","}">>
T_st_num_state_Success == <<"{","\"","s","t","a","t","u","s","\"",":","5",",","\"","s","t","a","t","e","\"",":","\"","S","u","c","c","e","s","s","\"","}">>
T_st_doner == <<"{","\"","s","t","a","t","u","s","\"",":","\"","d","o","n","e","r","\"","}">>
T_st_d_one == <<"{","\"","s","t","a","t","u","s","\"",":","\"","d"," ","o","n","e","\"","}">>
T_plain_done == <<"D","O","N","E","\n">>
T_elided == <<"{",".",".",".","}">>
B_valid == <<"Q","U","J","D">>
B_datauri == <<"d","a","t","a",":","i","m","a","g","e","/","p","n","g",";","b","a","s","e","6","4",",","Q","U","J","D">>
B_data_nocomma == <<"d","a","t","a",":","Q","U","J","D">>
B_bad == <<"Q","U","J">>
B_noise == <<"!","!","!","!">>
B_datauri_bad == <<"d","a","t","a",":","x",",","Q","U","J">>

(***************************************************************************)
(* json.loads / Response.json() on the literal texts: [ok, v], ok = FALSE  *)
(* when the parser raises.  Texts outside the table do not parse.          *)
(***************************************************************************)
JsonTable ==
    { <<T_obj_ab, JDict([a |-> JStr(<<"b">>)])>>,
      <<T_arr, JList(<<JNum(1)>>)>>,
      <<T_zero, JNum(0)>>,
      <<T_seven, JNum(7)>>,
      <<T_str, JStr(<<"s">>)>>,
      <<T_null, None>>,
      <<T_true, JBool(TRUE)>>,
      <<T_empty_obj, EmptyDict>>,
      <<T_id, JDict([id |-> JStr(S_v1)])>>,
      <<T_id_empty, JDict([id |-> JStr(<<>>), job_id |-> JStr(S_j2)])>>,
      <<T_id_num, JDict([id |-> JNum(7), task_id |-> JStr(S_t3)])>>,
      <<T_two_ids, JDict([video_id |-> JStr(S_v4), id |-> JStr(S_v1)])>>,
      <<T_st_succeeded, JDict([status |-> JStr(S_succeeded)])>>,
      <<T_st_Completed, JDict([status |-> JStr(S_Completed)])>>,
      <<T_state_FINISHED, JDict([state |-> JStr(S_FINISHED_sp)])>>,
      <<T_st_running, JDict([status |-> JStr(S_running)])>>,
      <<T_st_empty_state_done,
        JDict([status |-> JStr(<<>>), state |-> JStr(S_done)])>>,
      <<T_st_num_state_Success,
        JDict([status |-> JNum(5), state |-> JStr(S_Success)])>>,
      <<T_st_doner, JDict([status |-> JStr(S_doner)])>>,
      <<T_st_d_one, JDict([status |-> JStr(S_d_one)])>> }

JsonLoads(text) ==
    IF \E e \in JsonTable : e[1] = text
    THEN [ok |-> TRUE, v |-> (CHOOSE e \in JsonTable : e[1] = text)[2]]
    ELSE [ok |-> FALSE, v |-> None]

(***************************************************************************)
(* The environment of one HTTP exchange: requests.post / requests.get      *)
(* either raises a requests.RequestException (connect failure, timeout,    *)
(* DNS error), whose str() is a message, or returns a Response.            *)
(***************************************************************************)
ErrMsgs == {"connection refused", "read timed out"}

Headers(ct) == "Content-Type" :> ct

\* a requests.Response: jsonv is what Response.json() gives, ok = FALSE
\* when it raises
Response(code, headers, text, content, jsonv) ==
    [status_code |-> code, headers |-> headers, text |-> text,
     content |-> content, jsonv |-> jsonv]

\* a Response carrying one of the literal texts
TextResponse(code, ct, text) ==
    Response(code, Headers(ct), text, Len(text), JsonLoads(text))

Raised(msg) == [kind |-> "exception", msg |-> msg]
Answered(resp) == [kind |-> "response", resp |-> resp]

Exceptions == {Raised(m) : m \in ErrMsgs}

(***************************************************************************)
(* SoraAPIClient (src/sora_api.py).                                        *)
(***************************************************************************)
\* the envelope of a missing upload file
FileNotFound ==
    [status_code |-> None, ok |-> FALSE, error |-> "file not found"]

\* a variant of the failure envelope that drops the error key
TransportFailureNoError(msg) ==
    [status_code |-> None, ok |-> FALSE, json |-> None, text |-> <<>>]

\* the envelope create_video_job and get_job make of a RequestException
TransportFailure(msg) ==
    [status_code |-> None, ok |-> FALSE, error |-> msg, json |-> None,
     text |-> <<>>]

\* the envelope download_url makes of a RequestException
DownloadFailure(msg) ==
    [status_code |-> None, ok |-> FALSE, error |-> msg, json |-> None,
     text |-> <<>>, raw |-> None]

\* resp.headers.get("Content-Type", "")
ContentType(headers) ==
    IF "Content-Type" \in DOMAIN headers THEN headers["Content-Type"] ELSE <<>>

\* _build_response
BuildResponse(resp) ==
    LET ct == ContentType(resp.headers)
        parse == \/ Contains(ct, JSON_CT)
                 \/ /\ Len(resp.text) > 0
                    /\ StartsWith(Strip(resp.text), <<"{">>)
    IN  [status_code |-> JNum(resp.status_code),
         ok |-> resp.status_code < 400,
         headers |-> resp.headers,
         text |-> resp.text,
         json |-> IF parse /\ resp.jsonv.ok THEN resp.jsonv.v ELSE None,
         raw |-> Bytes(resp.content)]

\* get_job, given the outcome of its requests.get
get_job(outcome) ==
    IF outcome.kind = "exception"
    THEN TransportFailure(outcome.msg)
    ELSE BuildResponse(outcome.resp)

\* download_url, given the outcome of its requests.get
download_url(outcome) ==
    IF outcome.kind = "exception"
    THEN DownloadFailure(outcome.msg)
    ELSE [BuildResponse(outcome.resp) EXCEPT !.raw = Bytes(outcome.resp.content)]

\* the record of a client method's return kept in ret
Returned(fn, outcome, env) ==
    [fn |-> fn, raised |-> outcome.kind = "exception", env |-> env]

NoReturn == [fn |-> "", raised |-> FALSE, env |-> None]

\* envelope.get("json") or {}
JsonOrEmpty(env) ==
    LET v == IF "json" \in DOMAIN env THEN env.json ELSE None
    IN  IF Truthy(v) THEN v ELSE EmptyDict

(***************************************************************************)
(* CreateVideoJob.call (src/node_sora_jobs.py) and the create_video_job    *)
(* it calls.                                                               *)
(***************************************************************************)
ExistingFiles == {"/in/a.png"}
FilePaths == {"", "/in/a.png", "/in/missing.png"}
ExtraFieldsTexts == {<<>>, T_obj_ab, T_arr, T_bad, T_zero, T_str}
ImageTexts == {<<>>, B_valid, B_datauri, B_data_nocomma, B_bad, B_noise,
               B_datauri_bad}

\* os.path.exists
Exists(path) == path \in ExistingFiles

\* the answers of the creation endpoint
CreateResponses ==
    { TextResponse(200, JSON_CT, T_id),
      TextResponse(200, JSON_CT, T_id_empty),
      TextResponse(200, JSON_CT, T_id_num),
      TextResponse(200, TEXT_CT, T_two_ids),
      TextResponse(200, JSON_CT, T_empty_obj),
      TextResponse(200, JSON_CT, T_arr),
      TextResponse(200, JSON_CT, T_null),
      TextResponse(200, TEXT_CT, T_bad),
      TextResponse(400, JSON_CT, T_obj_ab),
      TextResponse(500, TEXT_CT, T_oops) }

\* the failure value of a local validation error
LocalFailure(msg) == [ok |-> FALSE, error |-> msg]

\* b64.split(",", 1)[1] under try/except: the part after the first comma,
\* the string unchanged when it has none
AfterComma(s) ==
    LET commas == {i \in 1..Len(s) : s[i] = ","}
    IN  IF commas = {} THEN s
        ELSE SubSeq(s, 1 + (CHOOSE i \in commas : \A k \in commas : i <= k),
                    Len(s))

\* the payload handed to b64decode
StripDataUri(s) == IF StartsWith(s, DATA_PREFIX) THEN AfterComma(s) ELSE s

\* the image_path argument: file_path if (not image_bytes and file_path)
\* else None; "" stands for None, both being false in `elif image_path`
ImagePath(image_bytes, file_path) ==
    IF ~Truthy(image_bytes) /\ file_path # "" THEN file_path ELSE ""

\* whether create_video_job takes the bytes branch
HasImageBytes(image_bytes) == image_bytes # None

\* a variant of create_video_job that does not look for the file
FileMissingUnchecked(image_bytes, image_path) == FALSE

\* whether create_video_job returns "file not found" before any request
FileMissing(image_bytes, image_path) ==
    ~HasImageBytes(image_bytes) /\ image_path # "" /\ ~Exists(image_path)

\* whether create_video_job opens the file for upload
OpensFile(image_bytes, image_path) ==
    ~HasImageBytes(image_bytes) /\ image_path # "" /\ Exists(image_path)

\* whether `for k, v in extra_fields.items()` raises AttributeError
ExtraFieldsRaise(extra) == Truthy(extra) /\ ~IsDict(extra)

\* the handle after the close of lines 93-97 and 101-105
Closed(h) == IF h = "open" THEN "closed" ELSE h

JobIdKeys == <<"id", "video_id", "job_id", "task_id">>

\* the first of id, video_id, job_id, task_id that is a non-empty string
ExtractJobId(j) ==
    LET hits == {i \in 1..Len(JobIdKeys) :
                    IsStr(Get(j, JobIdKeys[i])) /\ Truthy(Get(j, JobIdKeys[i]))}
    IN  IF hits = {} THEN <<>>
        ELSE Get(j, JobIdKeys[CHOOSE i \in hits : \A k \in hits : i <= k]).v

InitCreate ==
    /\ op = "create"
    /\ pc = "validate"
    /\ args \in [extra_fields_json : ExtraFieldsTexts,
                 image_base64 : ImageTexts,
                 file_path : FilePaths]
    /\ loc = [extra |-> EmptyDict, image_bytes |-> None, resp |-> None]
    /\ requests = <<>>
    /\ handle = "none"
    /\ ret = NoReturn
    /\ clock = 0
    /\ sleeps = 0
    /\ attempts = <<>>
    /\ files = <<>>
    /\ result = <<>>

\* call, lines 48-68: parse extra_fields_json, decode image_base64
CreateValidate ==
    /\ op = "create" /\ pc = "validate"
    /\ LET parsed == JsonLoads(args.extra_fields_json)
           decoded == b64decode(StripDataUri(args.image_base64))
       IN  IF Len(args.extra_fields_json) > 0 /\ ~parsed.ok
           THEN /\ result' = <<LocalFailure("extra_fields_json parse error"), <<>>>>
                /\ pc' = "done"
                /\ loc' = loc
           ELSE IF Len(args.image_base64) > 0 /\ ~decoded.ok
           THEN /\ result' = <<LocalFailure("image_base64 decode error"), <<>>>>
                /\ pc' = "done"
                /\ loc' = [loc EXCEPT !.extra =
                              IF Len(args.extra_fields_json) > 0
                              THEN parsed.v ELSE EmptyDict]
           ELSE /\ loc' = [loc EXCEPT
                              !.extra = IF Len(args.extra_fields_json) > 0
                                        THEN parsed.v ELSE EmptyDict,
                              !.image_bytes = IF Len(args.image_base64) > 0
                                              THEN Bytes(decoded.n) ELSE None]
                /\ pc' = "client"
                /\ result' = result
    /\ UNCHANGED <<op, args, requests, handle, ret, clock, sleeps, attempts,
                   files>>

\* create_video_job up to the request, lines 59-87: the file part, then the
\* form fields
CreatePrepare ==
    /\ op = "create" /\ pc = "client"
    /\ LET image_path == ImagePath(loc.image_bytes, args.file_path)
       IN  IF FileMissing(loc.image_bytes, image_path)
           THEN /\ ret' = [fn |-> "create_video_job", raised |-> FALSE,
                           env |-> FileNotFound]
                /\ loc' = [loc EXCEPT !.resp = FileNotFound]
                /\ pc' = "extract"
                /\ handle' = handle
           ELSE /\ handle' = IF OpensFile(loc.image_bytes, image_path)
                             THEN "open" ELSE handle
                /\ pc' = IF ExtraFieldsRaise(loc.extra) THEN "raised" ELSE "post"
                /\ UNCHANGED <<ret, loc>>
    /\ UNCHANGED <<op, args, requests, clock, sleeps, attempts, files, result>>

\* create_video_job, lines 89-107: the POST, the close of the handle on
\* either path, the envelope
CreatePost ==
    /\ op = "create" /\ pc = "post"
    /\ \E outcome \in Exceptions \cup {Answered(r) : r \in CreateResponses} :
          LET env == IF outcome.kind = "exception"
                     THEN TransportFailure(outcome.msg)
                     ELSE BuildResponse(outcome.resp)
          IN  /\ requests' = Append(requests, "POST")
              /\ handle' = Closed(handle)
              /\ ret' = Returned("create_video_job", outcome, env)
              /\ loc' = [loc EXCEPT !.resp = env]
    /\ pc' = "extract"
    /\ UNCHANGED <<op, args, clock, sleeps, attempts, files, result>>

\* call, lines 79-87: the job id out of the envelope
CreateExtract ==
    /\ op = "create" /\ pc = "extract"
    /\ LET j == JsonOrEmpty(loc.resp)
       IN  IF IsDict(j)
           THEN /\ result' = <<loc.resp, ExtractJobId(j)>>
                /\ pc' = "done"
           ELSE /\ result' = result
                /\ pc' = "raised"
    /\ UNCHANGED <<op, args, loc, requests, handle, ret, clock, sleeps,
                   attempts, files>>

(***************************************************************************)
(* GetVideoJobStatus.call (src/node_sora_jobs.py).  The clock advances     *)
(* only inside get_job (by the duration of the exchange) and inside        *)
(* time.sleep (by exactly the time asked for).                             *)
(***************************************************************************)
\* the answers of the status endpoint
StatusResponses ==
    { TextResponse(200, JSON_CT, T_st_succeeded),
      TextResponse(200, JSON_CT, T_st_Completed),
      TextResponse(200, JSON_CT, T_state_FINISHED),
      TextResponse(200, JSON_CT, T_st_running),
      TextResponse(200, JSON_CT, T_st_empty_state_done),
      TextResponse(200, TEXT_CT, T_st_num_state_Success),
      TextResponse(200, JSON_CT, T_st_doner),
      TextResponse(200, JSON_CT, T_st_d_one),
      TextResponse(200, JSON_CT, T_id),
      TextResponse(200, JSON_CT, T_arr),
      TextResponse(200, TEXT_CT, T_plain_done),
      TextResponse(500, TEXT_CT, T_oops) }

\* done_states of is_done_status
done_states == {S_succeeded, S_completed, S_finished, S_done, S_success}

\* a variant of is_done_status that compares the case as given
is_done_status_cased(status) ==
    IF Len(status) = 0 THEN FALSE
    ELSE Strip(status) \in done_states

\* is_done_status
is_done_status(status) ==
    IF Len(status) = 0 THEN FALSE
    ELSE Lower(Strip(status)) \in done_states

StatusKeys == <<"status", "state">>

\* the first of status, state that is a non-empty string, else the
\* envelope's text, else ""
ExtractStatus(j, env) ==
    LET hits == {i \in 1..Len(StatusKeys) :
                    IsStr(Get(j, StatusKeys[i])) /\ Truthy(Get(j, StatusKeys[i]))}
    IN  IF hits # {}
        THEN Get(j, StatusKeys[CHOOSE i \in hits : \A k \in hits : i <= k]).v
        ELSE IF "text" \in DOMAIN env THEN env.text ELSE <<>>

\* poll_timeout seconds in ticks
Ticks(seconds) == 2 * seconds

\* a variant of the sleep: poll_interval + 0.5 seconds in ticks
SleepTicksPadded(poll_interval) == 2 * poll_interval + 1

\* max(0.5, poll_interval) seconds in ticks
SleepTicks(poll_interval) ==
    IF Ticks(poll_interval) > 1 THEN Ticks(poll_interval) ELSE 1

\* a variant of the timeout test: elapsed > poll_timeout
TimedOutStrict(elapsed, poll_timeout) == elapsed > 2 * poll_timeout

\* elapsed >= poll_timeout
TimedOut(elapsed, poll_timeout) == elapsed >= Ticks(poll_timeout)

InitStatus ==
    /\ op = "status"
    /\ pc = "get"
    /\ args \in [poll : BOOLEAN,
                 poll_interval : 0..MaxPollInterval,
                 poll_timeout : 0..MaxPollTimeout]
    /\ loc = [start |-> 0, resp |-> None, status |-> <<>>, took |-> 0]
    /\ requests = <<>>
    /\ handle = "none"
    /\ ret = NoReturn
    /\ clock = 0
    /\ sleeps = 0
    /\ attempts = <<>>
    /\ files = <<>>
    /\ result = <<>>

\* call, lines 127-136: one get_job and the status read out of its envelope
StatusGetJob ==
    /\ op = "status" /\ pc = "get"
    /\ \E outcome \in Exceptions \cup {Answered(r) : r \in StatusResponses},
          took \in 0..MaxReqTicks :
          LET env == get_job(outcome)
              j == JsonOrEmpty(env)
          IN  /\ requests' = Append(requests, "GET job")
              /\ clock' = clock + took
              /\ ret' = Returned("get_job", outcome, env)
              /\ IF IsDict(j)
                 THEN /\ loc' = [loc EXCEPT !.resp = env,
                                            !.status = ExtractStatus(j, env),
                                            !.took = took]
                      /\ pc' = "check"
                 ELSE /\ loc' = [loc EXCEPT !.resp = env, !.took = took]
                      /\ pc' = "raised"
    /\ UNCHANGED <<op, args, handle, sleeps, attempts, files, result>>

\* call, lines 138-147: return, or sleep and go round again
StatusCheck ==
    /\ op = "status" /\ pc = "check"
    /\ IF \/ ~args.poll
          \/ is_done_status(loc.status)
          \/ TimedOut(clock - loc.start, args.poll_timeout)
       THEN /\ result' = <<loc.resp, loc.status>>
            /\ pc' = "done"
            /\ UNCHANGED <<clock, sleeps>>
       ELSE /\ clock' = clock + SleepTicks(args.poll_interval)
            /\ sleeps' = sleeps + 1
            /\ pc' = "get"
            /\ result' = result
    /\ UNCHANGED <<op, args, loc, requests, handle, ret, attempts, files>>

(***************************************************************************)
(* DownloadVideoResult.call (src/node_sora_jobs.py) and the                *)
(* save_bytes_to_tempfile it calls.                                        *)
(***************************************************************************)
ShortUrl == <<"h","t","t","p",":","/","/","h","/","v">>
LongUrl == HTTP_PREFIX \o Rep(100, "A")
LongB64 == Rep(104, "A")
LongBadB64 == Rep(101, "A")
T_binary == <<"?">>
TmpPath == "/tmp/sora_video_1.mp4"
CustomField == "clip"

\* a variant of the key order of outputs[0]
OutputsKeysDownloadFirst == <<"download_url", "url", "video_url">>

TopUrlKeys == <<"video_url", "url", "download_url", "video">>
TopB64Keys == <<"video_base64", "video_b64", "b64">>
OutputsKeys == <<"url", "download_url", "video_url">>
ResultKeys == <<"url", "video_url", "download_url">>

Range(q) == {q[i] : i \in 1..Len(q)}

PlainKeys == Range(TopUrlKeys) \cup Range(TopB64Keys) \cup {CustomField}

\* The fields a generated job object may hold: <<"top", k>> is the top-level
\* key k, <<"outputs", k>> the key k of outputs[0], <<"result", k>> the key
\* k of result, and <<"shape", c>> gives the container c (outputs, result) a
\* value without fields.
Leaves ==
    {<<"top", k>> : k \in PlainKeys} \cup
    {<<"outputs", k>> : k \in Range(OutputsKeys)} \cup
    {<<"result", k>> : k \in Range(ResultKeys)} \cup
    {<<"shape", "outputs">>, <<"shape", "result">>}

\* the values each field takes: of the right type, and of a wrong one
LeafVals(l) ==
    CASE l[1] = "top" /\ l[2] \in Range(TopUrlKeys) ->
            {JNum(7), JStr(ShortUrl)}
      [] l[1] = "top" /\ l[2] \in Range(TopB64Keys) ->
            {JNum(7), JStr(LongB64), JStr(LongBadB64)}
      [] l[1] = "top" /\ l[2] = CustomField ->
            {JNum(7), JStr(ShortUrl), JStr(LongUrl), JStr(LongB64),
             JStr(LongBadB64)}
      [] l[1] \in {"outputs", "result"} ->
            {JNum(7), JStr(ShortUrl)}
      [] l = <<"shape", "outputs">> ->
            {JNum(7), JList(<<>>), JList(<<JNum(7)>>), JList(<<EmptyDict>>)}
      [] l = <<"shape", "result">> ->
            {JNum(7), EmptyDict}

\* at most MaxKeys fields, a container having either a shape or fields
LeafSets ==
    {P \in SUBSET Leaves :
        /\ Cardinality(P) <= MaxKeys
        /\ \A c \in {"outputs", "result"} :
              <<"shape", c>> \in P => \A l \in P : l[1] # c}

\* the maps giving each field of P one of its values
RECURSIVE LeafMaps(_)
LeafMaps(P) ==
    IF P = {} THEN {EmptyMap}
    ELSE LET l == CHOOSE x \in P : TRUE
         IN  {(l :> v) @@ m : v \in LeafVals(l), m \in LeafMaps(P \ {l})}

\* the fields of m under part, as a map from their keys
Part(m, part, keys) ==
    [k \in {x \in keys : <<part, x>> \in DOMAIN m} |-> m[<<part, k>>]]

\* the job object holding the fields of m
Assemble(m) ==
    LET outs == Part(m, "outputs", Range(OutputsKeys))
        res == Part(m, "result", Range(ResultKeys))
    IN  JDict(Part(m, "top", PlainKeys) @@
              (IF <<"shape", "outputs">> \in DOMAIN m
               THEN "outputs" :> m[<<"shape", "outputs">>]
               ELSE IF DOMAIN outs # {}
                    THEN "outputs" :> JList(<<JDict(outs)>>)
                    ELSE EmptyMap) @@
              (IF <<"shape", "result">> \in DOMAIN m
               THEN "result" :> m[<<"shape", "result">>]
               ELSE IF DOMAIN res # {}
                    THEN "result" :> JDict(res)
                    ELSE EmptyMap))

\* the job objects the status endpoint answers with
JobObjects == {Assemble(m) : m \in UNION {LeafMaps(P) : P \in LeafSets}}

\* the answers of the status endpoint to the download node
JobResponses ==
    {Response(200, Headers(JSON_CT), T_elided, Len(T_elided),
              [ok |-> TRUE, v |-> d]) : d \in JobObjects} \cup
    { TextResponse(200, JSON_CT, T_arr),
      TextResponse(200, JSON_CT, T_seven),
      TextResponse(200, JSON_CT, T_str),
      TextResponse(200, JSON_CT, T_true),
      TextResponse(200, JSON_CT, T_null),
      TextResponse(200, JSON_CT, T_zero),
      TextResponse(500, TEXT_CT, T_oops),
      Response(200, EmptyMap, T_oops, Len(T_oops), [ok |-> FALSE, v |-> None]),
      Response(200, Headers(VIDEO_CT), T_binary, 9, [ok |-> FALSE, v |-> None]),
      Response(200, Headers(VIDEO_CT), <<>>, 0, [ok |-> FALSE, v |-> None]) }

\* the answers to a download_url
FileResponses ==
    { Response(200, Headers(VIDEO_CT), T_binary, 9, [ok |-> FALSE, v |-> None]),
      TextResponse(404, TEXT_CT, T_oops) }

\* the outcomes of a download_url
DownloadOutcomes == Exceptions \cup {Answered(r) : r \in FileResponses}

\* the outcomes of a temp-file write
SaveOutcomes == {"written", "oserror"}

\* save_bytes_to_tempfile on the temp files fs: the path and the file on
\* success; on an exception the file is removed again and it raises
save_bytes_to_tempfile(fs, n, outcome) ==
    IF outcome = "written"
    THEN [ok |-> TRUE, path |-> TmpPath,
          files |-> Append(fs, [path |-> TmpPath, n |-> n])]
    ELSE [ok |-> FALSE, path |-> "", files |-> fs]

\* isinstance(v, str) and v.startswith("http")
IsHttpStr(v) == IsStr(v) /\ StartsWith(v.v, HTTP_PREFIX)

\* isinstance(v, str) and len(v) > 100
IsLongStr(v) == IsStr(v) /\ Len(v.v) > 100

\* dl.get("raw") or b"", as a number of bytes
RawOrEmpty(env) ==
    IF "raw" \in DOMAIN env /\ Truthy(env.raw) THEN env.raw.n ELSE 0

\* one entry of attempts: strategy s tried key, step act ended ok or not
Att(s, key, act, ok) == [s |-> s, key |-> key, act |-> act, ok |-> ok]

\* the least index from k on whose key holds a value satisfying Match
NextMatch(d, keys, k, Match(_)) ==
    LET hits == {i \in k..Len(keys) : Match(Get(d, keys[i]))}
    IN  IF hits = {} THEN 0 ELSE CHOOSE i \in hits : \A x \in hits : i <= x

InitDownload ==
    /\ op = "download"
    /\ pc = "get"
    /\ args \in [download_field : {"", CustomField}]
    /\ loc = [resp |-> None, j |-> EmptyDict, k |-> 1]
    /\ requests = <<>>
    /\ handle = "none"
    /\ ret = NoReturn
    /\ clock = 0
    /\ sleeps = 0
    /\ attempts = <<>>
    /\ files = <<>>
    /\ result = <<>>

\* the strategy after the explicit field, and whether a non-dict j raises
AfterGetJob(j, download_field) ==
    IF ~IsDict(j) THEN "raised"
    ELSE IF download_field # "" THEN "explicit" ELSE "url_fields"

\* call, lines 179-182: the one get_job
DownloadGetJob ==
    /\ op = "download" /\ pc = "get"
    /\ \E outcome \in Exceptions \cup {Answered(r) : r \in JobResponses} :
          LET env == get_job(outcome)
              j == JsonOrEmpty(env)
          IN  /\ requests' = Append(requests, "GET job")
              /\ ret' = Returned("get_job", outcome, env)
              /\ loc' = [resp |-> env, j |-> j, k |-> 1]
              /\ pc' = AfterGetJob(j, args.download_field)
    /\ UNCHANGED <<op, args, handle, clock, sleeps, attempts, files, result>>

\* return (resp, saved_path) after a successful save
ReturnSaved(saved) ==
    /\ result' = <<loc.resp, saved.path>>
    /\ files' = saved.files
    /\ pc' = "done"
    /\ loc' = loc

\* fall through to position k of the strategy at
FallThrough(at, k) ==
    /\ pc' = at
    /\ loc' = [loc EXCEPT !.k = k]
    /\ UNCHANGED <<files, result>>

\* what a failed save of the explicit field's download does, line 194
ExplicitSaveFailed ==
    /\ result' = <<loc.resp, "">>
    /\ pc' = "done"
    /\ UNCHANGED <<files, loc>>

\* try: download_url(v), and save when it is ok; else the next position
DownloadAndSave(s, key, outcome, written, at, k) ==
    LET dl == download_url(outcome)
        saved == save_bytes_to_tempfile(files, RawOrEmpty(dl), written)
    IN  /\ requests' = Append(requests, "GET url")
        /\ ret' = Returned("download_url", outcome, dl)
        /\ IF dl.ok
           THEN /\ attempts' = attempts \o <<Att(s, key, "download", TRUE),
                                             Att(s, key, "save", saved.ok)>>
                /\ IF saved.ok THEN ReturnSaved(saved) ELSE FallThrough(at, k)
           ELSE /\ attempts' = Append(attempts, Att(s, key, "download", FALSE))
                /\ FallThrough(at, k)

\* try: b64decode(v) and save; else the next position
DecodeAndSave(s, key, v, written, at, k) ==
    LET b == b64decode(v.v)
        saved == save_bytes_to_tempfile(files, b.n, written)
    IN  /\ UNCHANGED <<requests, ret>>
        /\ IF b.ok
           THEN /\ attempts' = attempts \o <<Att(s, key, "decode", TRUE),
                                             Att(s, key, "save", saved.ok)>>
                /\ IF saved.ok THEN ReturnSaved(saved) ELSE FallThrough(at, k)
           ELSE /\ attempts' = Append(attempts, Att(s, key, "decode", FALSE))
                /\ FallThrough(at, k)

\* call, lines 185-194: the explicit field as a URL
DownloadExplicitUrl ==
    /\ op = "download" /\ pc = "explicit"
    /\ LET v == Get(loc.j, args.download_field)
       IN  IF IsHttpStr(v)
           THEN \E outcome \in DownloadOutcomes, written \in SaveOutcomes :
                   LET dl == download_url(outcome)
                       saved == save_bytes_to_tempfile(files, RawOrEmpty(dl),
                                                       written)
                   IN  /\ requests' = Append(requests, "GET url")
                       /\ ret' = Returned("download_url", outcome, dl)
                       /\ IF dl.ok
                          THEN /\ attempts' = attempts \o
                                    <<Att(1, args.download_field, "download", TRUE),
                                      Att(1, args.download_field, "save", saved.ok)>>
                               /\ IF saved.ok THEN ReturnSaved(saved)
                                  ELSE ExplicitSaveFailed
                          ELSE /\ attempts' = Append(attempts,
                                    Att(1, args.download_field, "download", FALSE))
                               /\ FallThrough("explicit_b64", 1)
           ELSE /\ FallThrough("explicit_b64", 1)
                /\ UNCHANGED <<requests, ret, attempts>>
    /\ UNCHANGED <<op, args, handle, clock, sleeps>>

\* call, lines 195-201: the explicit field as Base64
DownloadExplicitB64 ==
    /\ op = "download" /\ pc = "explicit_b64"
    /\ LET v == Get(loc.j, args.download_field)
       IN  IF IsLongStr(v)
           THEN \E written \in SaveOutcomes :
                   DecodeAndSave(1, args.download_field, v, written,
                                 "url_fields", 1)
           ELSE /\ FallThrough("url_fields", 1)
                /\ UNCHANGED <<requests, ret, attempts>>
    /\ UNCHANGED <<op, args, handle, clock, sleeps>>

\* call, lines 204-213: video_url, url, download_url, video, from position k
DownloadUrlFields ==
    /\ op = "download" /\ pc = "url_fields"
    /\ LET i == NextMatch(loc.j, TopUrlKeys, loc.k, IsHttpStr)
       IN  IF i # 0
           THEN \E outcome \in DownloadOutcomes, written \in SaveOutcomes :
                   DownloadAndSave(2, TopUrlKeys[i], outcome, written,
                                   "url_fields", i + 1)
           ELSE /\ FallThrough("b64_fields", 1)
                /\ UNCHANGED <<requests, ret, attempts>>
    /\ UNCHANGED <<op, args, handle, clock, sleeps>>

\* call, lines 215-223: video_base64, video_b64, b64, from position k
DownloadB64Fields ==
    /\ op = "download" /\ pc = "b64_fields"
    /\ LET i == NextMatch(loc.j, TopB64Keys, loc.k, IsLongStr)
       IN  IF i # 0
           THEN \E written \in SaveOutcomes :
                   DecodeAndSave(3, TopB64Keys[i], Get(loc.j, TopB64Keys[i]),
                                 written, "b64_fields", i + 1)
           ELSE /\ FallThrough("outputs", 1)
                /\ UNCHANGED <<requests, ret, attempts>>
    /\ UNCHANGED <<op, args, handle, clock, sleeps>>

\* isinstance(j.get("outputs"), list) and len(j["outputs"]) > 0 and
\* isinstance(j["outputs"][0], dict)
HasOutputs(j) ==
    /\ Get(j, "outputs").t = "list"
    /\ Len(Get(j, "outputs").v) > 0
    /\ IsDict(Get(j, "outputs").v[1])

\* call, lines 226-238: url, download_url, video_url of outputs[0]
DownloadOutputs ==
    /\ op = "download" /\ pc = "outputs"
    /\ LET i == IF HasOutputs(loc.j)
                THEN NextMatch(Get(loc.j, "outputs").v[1], OutputsKeys, loc.k,
                               IsHttpStr)
                ELSE 0
       IN  IF i # 0
           THEN \E outcome \in DownloadOutcomes, written \in SaveOutcomes :
                   DownloadAndSave(4, OutputsKeys[i], outcome, written,
                                   "outputs", i + 1)
           ELSE /\ FallThrough("result", 1)
                /\ UNCHANGED <<requests, ret, attempts>>
    /\ UNCHANGED <<op, args, handle, clock, sleeps>>

\* call, lines 240-250: url, video_url, download_url of result
DownloadResult ==
    /\ op = "download" /\ pc = "result"
    /\ LET i == IF IsDict(Get(loc.j, "result"))
                THEN NextMatch(Get(loc.j, "result"), ResultKeys, loc.k,
                               IsHttpStr)
                ELSE 0
       IN  IF i # 0
           THEN \E outcome \in DownloadOutcomes, written \in SaveOutcomes :
                   DownloadAndSave(5, ResultKeys[i], outcome, written,
                                   "result", i + 1)
           ELSE /\ FallThrough("raw", 1)
                /\ UNCHANGED <<requests, ret, attempts>>
    /\ UNCHANGED <<op, args, handle, clock, sleeps>>

\* raw and isinstance(ct, str) and ct.startswith("video")
IsRawVideo(env) ==
    /\ "raw" \in DOMAIN env /\ Truthy(env.raw)
    /\ "headers" \in DOMAIN env
    /\ StartsWith(ContentType(env.headers), VIDEO_PREFIX)

\* call, lines 253-262: the raw body of the job response, then the return
DownloadRaw ==
    /\ op = "download" /\ pc = "raw"
    /\ IF IsRawVideo(loc.resp)
       THEN \E written \in SaveOutcomes :
               LET saved == save_bytes_to_tempfile(files, loc.resp.raw.n,
                                                   written)
               IN  /\ attempts' = Append(attempts, Att(6, "raw", "save", saved.ok))
                   /\ result' = <<loc.resp, saved.path>>
                   /\ files' = saved.files
       ELSE /\ result' = <<loc.resp, "">>
            /\ UNCHANGED <<attempts, files>>
    /\ pc' = "done"
    /\ UNCHANGED <<op, args, loc, requests, handle, ret, clock, sleeps>>

(***************************************************************************)
(* The specification: one call of one node.                                *)
(***************************************************************************)
Init == InitCreate \/ InitStatus \/ InitDownload

Next ==
    \/ CreateValidate
    \/ CreatePrepare
    \/ CreatePost
    \/ CreateExtract
    \/ StatusGetJob
    \/ StatusCheck
    \/ DownloadGetJob
    \/ DownloadExplicitUrl
    \/ DownloadExplicitB64
    \/ DownloadUrlFields
    \/ DownloadB64Fields
    \/ DownloadOutputs
    \/ DownloadResult
    \/ DownloadRaw

Spec == Init /\ [][Next]_vars

(***************************************************************************)
(* Properties.                                                             *)
(***************************************************************************)
Ended == pc \in {"done", "raised"}

\* status_code is absent from the envelope, or None
StatusAbsent(env) == "status_code" \notin DOMAIN env \/ env.status_code = None

\* a local validation failure of CreateVideoJob.call, read off its arguments
LocalValidationFailure(a) ==
    \/ Len(a.extra_fields_json) > 0 /\ ~JsonLoads(a.extra_fields_json).ok
    \/ Len(a.image_base64) > 0 /\ ~b64decode(StripDataUri(a.image_base64)).ok
    \/ Len(a.image_base64) = 0 /\ a.file_path # "" /\ ~Exists(a.file_path)

\* C1: in CreateVideoJob.call a local validation failure (extra_fields_json
\* that does not parse, image_base64 that does not decode, a file_path that
\* does not exist when no image bytes are given) never raises and never
\* issues an HTTP request, and the call ends with a failure value (ok false,
\* error set) and the empty job id.
C1_LocalFailureBeforeNetwork ==
    (op = "create" /\ LocalValidationFailure(args)) =>
        /\ requests = <<>>
        /\ pc # "raised"
        /\ pc = "done" =>
              /\ result[1].ok = FALSE
              /\ "error" \in DOMAIN result[1]
              /\ result[1].error # ""
              /\ result[2] = <<>>

\* C1: a call with a missing upload file, valid extra fields and no Base64
\* payload has returned
C1_Witness ==
    /\ op = "create" /\ pc = "done"
    /\ args.file_path = "/in/missing.png"
    /\ args.image_base64 = <<>>
    /\ args.extra_fields_json = T_obj_ab
    /\ result[1] = FileNotFound

\* C2: no end state of create_video_job (return or exception) has the
\* upload file handle open.
C2_HandleClosedOnExit == (op = "create" /\ Ended) => handle # "open"

\* C3 as stated: with poll=true a transport failure of get_job is returned
\* at once and no further get_job is issued.
C3_FailureEndsPolling ==
    [][(op = "status" /\ pc = "check" /\ args.poll /\ ret.raised) =>
          /\ pc' = "done"
          /\ result' = <<ret.env, loc.status>>
          /\ requests' = requests]_vars

\* C3 as amended: with poll=true a transport failure of get_job is an
\* observation with the empty status like any non-terminal one: it is
\* returned only when the elapsed time has reached poll_timeout, otherwise
\* the loop sleeps max(0.5, poll_interval) and goes back to get_job.
C3_FailureIsRetriedUntilTimeout ==
    [][(op = "status" /\ pc = "check" /\ args.poll /\ ret.raised) =>
          /\ loc.status = <<>>
          /\ loc.resp = ret.env
          /\ IF clock - loc.start >= 2 * args.poll_timeout
             THEN /\ pc' = "done"
                  /\ result' = <<ret.env, <<>>>>
                  /\ requests' = requests
                  /\ sleeps' = sleeps
             ELSE /\ pc' = "get"
                  /\ sleeps' = sleeps + 1
                  /\ clock' = clock + (IF 2 * args.poll_interval > 1
                                       THEN 2 * args.poll_interval ELSE 1)
                  /\ requests' = requests]_vars

\* C3: the loop has slept after a transport failure and is about to call
\* get_job again
C3_Witness ==
    /\ op = "status" /\ pc = "get" /\ args.poll
    /\ ret.raised /\ sleeps >= 1 /\ Len(requests) >= 1

\* the terminal status names of the claim
TerminalNames ==
    { <<"s","u","c","c","e","e","d","e","d">>,
      <<"c","o","m","p","l","e","t","e","d">>,
      <<"f","i","n","i","s","h","e","d">>,
      <<"d","o","n","e">>,
      <<"s","u","c","c","e","s","s">> }

\* C4: with poll=true, an observation whose status is, compared
\* case-insensitively, one of succeeded, completed, finished, done, success
\* is returned at once, envelope and status, with no further get_job and no
\* sleep, whatever the elapsed time.
C4_ReturnsAtFirstTerminal ==
    [][(op = "status" /\ pc = "check" /\ args.poll
            /\ Lower(loc.status) \in TerminalNames) =>
          /\ pc' = "done"
          /\ result' = <<ret.env, loc.status>>
          /\ requests' = requests
          /\ sleeps' = sleeps
          /\ clock' = clock]_vars

\* C4: a polling call has returned "Completed" on its second observation or
\* later, before the timeout
C4_Witness ==
    /\ op = "status" /\ pc = "done" /\ args.poll
    /\ result[2] = <<"C","o","m","p","l","e","t","e","d">>
    /\ Len(requests) >= 2
    /\ clock < 2 * args.poll_timeout

\* C5 as stated: with poll=true and no terminal status ever observed, the
\* call returns no later than poll_timeout + poll_interval after the loop
\* started, with the last observed envelope and status.
C5_ReturnsWithinTimeoutPlusInterval ==
    (op = "status" /\ pc = "done" /\ args.poll
        /\ ~is_done_status(result[2])) =>
        /\ clock - loc.start <= 2 * args.poll_timeout + 2 * args.poll_interval
        /\ result = <<ret.env, loc.status>>

\* C5 as amended: with poll=true, poll_timeout >= 0 and no terminal status
\* ever observed, the call ends less than poll_timeout +
\* max(0.5, poll_interval) + d after the loop started, d being the duration
\* of its last get_job; when it returns, it returns the last observed
\* envelope and status.
C5_ReturnsWithinTimeoutSleepAndRequest ==
    (op = "status" /\ Ended /\ args.poll
        /\ (pc = "done" => ~is_done_status(result[2]))) =>
        /\ clock - loc.start <
              2 * args.poll_timeout
              + (IF 2 * args.poll_interval > 1 THEN 2 * args.poll_interval ELSE 1)
              + loc.took
        /\ pc = "done" => result = <<ret.env, loc.status>>

\* C5: a polling call that slept has returned by timeout, later than
\* poll_timeout + poll_interval
C5_Witness ==
    /\ op = "status" /\ pc = "done" /\ args.poll
    /\ ~is_done_status(result[2])
    /\ sleeps >= 1
    /\ clock - loc.start > 2 * args.poll_timeout + 2 * args.poll_interval

\* C6: an envelope returned by create_video_job, get_job or download_url
\* carries error exactly when status_code is absent; when the HTTP call
\* raised, the method returned (nothing escaped) an envelope with ok false,
\* no status_code and a non-empty error.
C6_TransportFailureEnvelope ==
    ret.fn # "" =>
        /\ ret.fn \in {"create_video_job", "get_job", "download_url"}
        /\ ("error" \in DOMAIN ret.env) <=> StatusAbsent(ret.env)
        /\ ret.raised =>
              /\ ret.env.ok = FALSE
              /\ StatusAbsent(ret.env)
              /\ "error" \in DOMAIN ret.env
              /\ ret.env.error # ""
              /\ pc # "raised"
        /\ ~ret.raised /\ ~StatusAbsent(ret.env) =>
              /\ ret.env.status_code.t = "num"
              /\ {"headers", "text", "raw", "json"} \subseteq DOMAIN ret.env

\* C6: a download_url whose requests.get raised has returned
C6_Witness ==
    /\ op = "download"
    /\ ret.fn = "download_url" /\ ret.raised
    /\ requests = <<"GET job", "GET url">>

\* the order of the resolution strategies, as <<strategy, key>>, for the
\* explicit field name field
ClaimedOrder(field) ==
    << <<1, field>>,
       <<2, "video_url">>, <<2, "url">>, <<2, "download_url">>, <<2, "video">>,
       <<3, "video_base64">>, <<3, "video_b64">>, <<3, "b64">>,
       <<4, "url">>, <<4, "download_url">>, <<4, "video_url">>,
       <<5, "url">>, <<5, "video_url">>, <<5, "download_url">>,
       <<6, "raw">> >>

\* the place of an attempt in that order, 0 when it has none
Rank(a) ==
    LET order == ClaimedOrder(args.download_field)
        at == {i \in 1..Len(order) : order[i] = <<a.s, a.key>>}
    IN  IF at = {} THEN 0 ELSE CHOOSE i \in at : TRUE

SavedAt(i) == attempts[i].act = "save" /\ attempts[i].ok

\* the job of the example: {"outputs": [{"url": "http://..."}]}
OutputsUrlJob ==
    JDict("outputs" :> JList(<<JDict("url" :> JStr(ShortUrl))>>))

\* C7: DownloadVideoResult.call issues one get_job, then tries the
\* strategies in the order explicit field, top-level URL fields, top-level
\* Base64 fields, outputs[0], result, raw body; the first successful save
\* ends the call, its file is the saved path, and no download or write
\* follows it; a job whose only usable field is outputs[0].url is resolved
\* through that field, with a non-empty path when its download and save
\* succeed.
C7_StrategiesInOrderStopAtFirst ==
    (op = "download" /\ pc # "get") =>
        /\ requests[1] = "GET job"
        /\ \A i \in 2..Len(requests) : requests[i] = "GET url"
        /\ Len(requests) - 1 =
              Cardinality({i \in 1..Len(attempts) : attempts[i].act = "download"})
        /\ \A i \in 1..Len(attempts) : Rank(attempts[i]) # 0
        /\ \A i, k \in 1..Len(attempts) :
              i < k => Rank(attempts[i]) <= Rank(attempts[k])
        /\ \A i \in 1..Len(attempts) :
              SavedAt(i) =>
                 /\ i = Len(attempts)
                 /\ pc = "done"
                 /\ result[2] = TmpPath
                 /\ Len(files) = 1 /\ files[1].path = result[2]
        /\ (\A i \in 1..Len(attempts) : ~SavedAt(i)) =>
              /\ files = <<>>
              /\ pc = "done" => result[2] = ""
        /\ (pc = "done" /\ loc.j = OutputsUrlJob) =>
              /\ attempts[1].s = 4 /\ attempts[1].key = "url"
              /\ attempts[1].act = "download"
              /\ (\A i \in 1..Len(attempts) : attempts[i].ok) =>
                    /\ attempts = <<Att(4, "url", "download", TRUE),
                                    Att(4, "url", "save", TRUE)>>
                    /\ result[2] # ""

\* C7: the job {"outputs": [{"url": ...}]} has been resolved to a saved file
C7_Witness ==
    /\ op = "download" /\ pc = "done"
    /\ loc.j = OutputsUrlJob
    /\ result[2] = TmpPath
    /\ Len(files) = 1

\* C8: CreateVideoJob.call never raises: whatever the inputs and the
\* response, it returns the envelope and the extracted job id.
C8_CreateNeverRaises == op = "create" => pc # "raised"

\* whether strategy s finds a usable value under key in the job object j of
\* the envelope env
Usable(s, key, j, env) ==
    CASE s = 1 -> key # "" /\ (IsHttpStr(Get(j, key)) \/ IsLongStr(Get(j, key)))
      [] s = 2 -> IsHttpStr(Get(j, key))
      [] s = 3 -> IsLongStr(Get(j, key))
      [] s = 4 -> /\ Get(j, "outputs").t = "list"
                  /\ Len(Get(j, "outputs").v) > 0
                  /\ Get(j, "outputs").v[1].t = "dict"
                  /\ IsHttpStr(Get(Get(j, "outputs").v[1], key))
      [] s = 5 -> /\ Get(j, "result").t = "dict"
                  /\ IsHttpStr(Get(Get(j, "result"), key))
      [] s = 6 -> IsRawVideo(env)

\* the JSON body of the envelope is of any type and holds no recognized
\* field in a usable form, and the content type is not video
NothingUsable(env, field) ==
    LET body == IF "json" \in DOMAIN env THEN env.json ELSE None
        order == ClaimedOrder(field)
    IN  /\ ~("headers" \in DOMAIN env
              /\ StartsWith(ContentType(env.headers), VIDEO_PREFIX))
        /\ body.t = "dict" =>
              \A i \in 1..Len(order) :
                 ~Usable(order[i][1], order[i][2], body, env)

\* C9: when the job response holds no recognized field in a usable form,
\* whatever the type of its JSON body, and the content type is not video,
\* DownloadVideoResult.call returns the envelope and an empty path, without
\* raising, downloading or writing.
C9_NothingUsableReturnsEmpty ==
    (op = "download" /\ Ended /\ NothingUsable(loc.resp, args.download_field)) =>
        /\ pc = "done"
        /\ result = <<loc.resp, "">>
        /\ requests = <<"GET job">>
        /\ files = <<>>

\* C10: a failing decode, save or download step never ends
\* DownloadVideoResult.call early: when the call returns an empty path,
\* every strategy with a usable value has been tried.
C10_FailureFallsThrough ==
    (op = "download" /\ pc = "done" /\ result[2] = "") =>
        LET order == ClaimedOrder(args.download_field)
        IN  \A i \in 1..Len(order) :
               Usable(order[i][1], order[i][2], loc.j, loc.resp) =>
                  \E n \in 1..Len(attempts) :
                     <<attempts[n].s, attempts[n].key>> = order[i]

====
